---------------------------- MODULE Spec2Model ----------------------------
(***************************************************************************)
(* Model of the namemc-hash-api service (src/main.go): the /hash handler,  *)
(* its process-wide cache and the fingerprint computation.                 *)
(*                                                                         *)
(* Strings are tuples of one-character strings, byte slices are tuples of  *)
(* numbers in 0..255, so that parsing, re-serialising, slicing and         *)
(* hex-encoding are computed and not assumed.                              *)
(***************************************************************************)
EXTENDS Integers, Sequences, FiniteSets, TLC

(***************************************************************************)
(* Bounds of the model.                                                    *)
(***************************************************************************)
\* number of requests the server receives in one behaviour
MaxReqs == 2
\* largest width and height of the images given to the fingerprint engine
MaxDim == 2

Reqs == 1..MaxReqs

(***************************************************************************)
(* Strings and byte slices.                                                *)
(***************************************************************************)
\* strings.Cut / strings.Index: position of the first c in s, 0 when absent
IndexOf(s, c) ==
    IF \E i \in 1..Len(s) : s[i] = c
    THEN CHOOSE i \in 1..Len(s) : s[i] = c /\ \A j \in 1..(i - 1) : s[j] # c
    ELSE 0

Count(s, c) == Cardinality({i \in 1..Len(s) : s[i] = c})

Letters == {"a", "b", "f", "h", "p", "t", "v", "w", "x"}

HexDigits == <<"0", "1", "2", "3", "4", "5", "6", "7",
               "8", "9", "a", "b", "c", "d", "e", "f">>

\* hex.EncodeToString: two lower-case digits per byte, high nibble first
RECURSIVE EncodeToString(_)
EncodeToString(bs) ==
    IF bs = <<>> THEN <<>>
    ELSE <<HexDigits[(Head(bs) \div 16) + 1], HexDigits[(Head(bs) % 16) + 1]>>
         \o EncodeToString(Tail(bs))

(***************************************************************************)
(* sha256.Sum256 stands as a fixed-width digest of 32 bytes.  The real     *)
(* compression function is replaced by a byte-wise absorption that is      *)
(* collision-free on slices shorter than 32 bytes, which covers every      *)
(* slice of the bounded model; the length occupies the last byte.          *)
(***************************************************************************)
RECURSIVE Absorb(_, _, _)
Absorb(data, i, st) ==
    IF i > Len(data) THEN st
    ELSE Absorb(data, i + 1,
                [st EXCEPT ![((i - 1) % 31) + 1] = (@ * 31 + data[i] + 7) % 256])

Sum256(data) ==
    Absorb(data, 1, [p \in 1..32 |-> IF p = 32 THEN Len(data) % 256 ELSE 0])

\* main.go hashBuffer
hashBuffer(data) == EncodeToString(Sum256(data))

\* main.go sha256Hex
sha256Hex(data) == EncodeToString(Sum256(data))

(***************************************************************************)
(* net/url as normalizeURL uses it.  Parse cuts the fragment at the first  *)
(* '#', reads the scheme, and then either records a bare trailing '?' as   *)
(* ForceQuery or cuts the query at the first '?'.  What remains (authority *)
(* and path) is kept in Rest: for the unescaped ASCII hosts and paths of   *)
(* the model String() writes it back character for character.              *)
(***************************************************************************)
\* url.getScheme: [ok, scheme, rest]
getScheme(s) ==
    LET stop == IF \E i \in 1..Len(s) : s[i] \notin Letters
                THEN CHOOSE i \in 1..Len(s) :
                        s[i] \notin Letters /\ \A j \in 1..(i - 1) : s[j] \in Letters
                ELSE 0
    IN  IF stop = 0 \/ s[stop] # ":"
        THEN [ok |-> TRUE, scheme |-> <<>>, rest |-> s]
        ELSE IF stop = 1
        THEN [ok |-> FALSE, scheme |-> <<>>, rest |-> <<>>]
        ELSE [ok |-> TRUE, scheme |-> SubSeq(s, 1, stop - 1),
              rest |-> SubSeq(s, stop + 1, Len(s))]

\* url.Parse
Parse(raw) ==
    LET h  == IndexOf(raw, "#")
        u  == IF h = 0 THEN raw ELSE SubSeq(raw, 1, h - 1)
        fr == IF h = 0 THEN <<>> ELSE SubSeq(raw, h + 1, Len(raw))
        sc == getScheme(u)
        force == Len(sc.rest) > 0 /\ sc.rest[Len(sc.rest)] = "?"
                 /\ Count(sc.rest, "?") = 1
        q  == IndexOf(sc.rest, "?")
    IN  [ok         |-> sc.ok,
         Scheme     |-> sc.scheme,
         Rest       |-> IF q = 0 THEN sc.rest ELSE SubSeq(sc.rest, 1, q - 1),
         ForceQuery |-> force,
         RawQuery   |-> IF force \/ q = 0 THEN <<>>
                        ELSE SubSeq(sc.rest, q + 1, Len(sc.rest)),
         Fragment   |-> fr]

\* (*url.URL).String
String(u) ==
    (IF u.Scheme # <<>> THEN u.Scheme \o <<":">> ELSE <<>>)
    \o u.Rest
    \o (IF u.ForceQuery \/ u.RawQuery # <<>> THEN <<"?">> \o u.RawQuery ELSE <<>>)
    \o (IF u.Fragment # <<>> THEN <<"#">> \o u.Fragment ELSE <<>>)

\* main.go normalizeURL: [ok, url]
normalizeURL(raw) ==
    LET parsed == Parse(raw)
    IN  IF ~parsed.ok THEN [ok |-> FALSE, url |-> raw]
        ELSE [ok  |-> TRUE,
              url |-> String([parsed EXCEPT !.RawQuery = <<>>, !.Fragment = <<>>])]

(***************************************************************************)
(* Image files.  A file is a byte slice in a reduced container layout that *)
(* keeps what image.Decode and the PNG encoder decide on:                  *)
(*   <<137, colour type, encoder variant, width, height>> \o RGBA bytes    *)
(*       a PNG; colour type 6 (truecolour with alpha) decodes to           *)
(*       *image.NRGBA, colour type 3 (indexed with tRNS) to                *)
(*       *image.Paletted, whose palette entries are color.NRGBA; the       *)
(*       variant byte stands for incidental encoding choices (compression  *)
(*       level, chunk order) that do not reach the decoded image;          *)
(*   <<255, 216>>   a JPEG (its start-of-image marker), a decodable image  *)
(*       of another registered format;                                     *)
(*   anything else  no registered format, or a truncated PNG.              *)
(***************************************************************************)
\* image.Decode: [ok, format, kind, width, height, Pix]
Decode(bs) ==
    LET bad == [ok |-> FALSE, format |-> "", kind |-> "", width |-> 0,
                height |-> 0, Pix |-> <<>>]
    IN  IF Len(bs) >= 2 /\ bs[1] = 255 /\ bs[2] = 216
        THEN [ok |-> TRUE, format |-> "jpeg", kind |-> "YCbCr", width |-> 1,
              height |-> 1, Pix |-> <<0, 0, 0, 255>>]
        ELSE IF Len(bs) >= 5 /\ bs[1] = 137 /\ bs[2] \in {3, 6}
                /\ bs[4] > 0 /\ bs[5] > 0 /\ Len(bs) = 5 + 4 * bs[4] * bs[5]
        THEN [ok |-> TRUE, format |-> "png",
              kind |-> IF bs[2] = 6 THEN "NRGBA" ELSE "Paletted",
              width |-> bs[4], height |-> bs[5], Pix |-> SubSeq(bs, 6, Len(bs))]
        ELSE bad

\* color.NRGBA.RGBA: one colour channel c under alpha a, alpha-premultiplied,
\* 16 bits: c |= c << 8; c *= a; c /= 0xff
Premultiply(c, a) == (c * 257 * a) \div 255

\* (*image.NRGBA).SetRGBA64: a premultiplied 16-bit channel r under the 16-bit
\* alpha 257 * a back to 8 bits: if a16 is neither 0 nor 0xffff,
\* r = r * 0xffff / a16; then uint8(r >> 8).  r * 0xffff / (257 * a) is written
\* r * 255 / a, the same quotient, to stay within 32-bit arithmetic.
SetRGBA64(r, a) ==
    (IF a # 0 /\ a # 255 THEN (r * 255) \div a ELSE r) \div 256

\* draw.Draw(rgba, bounds, img, bounds.Min, draw.Src) into a fresh *image.NRGBA:
\* an *image.NRGBA source is copied byte for byte; every other source goes
\* through RGBA64At (premultiplied) and SetRGBA64, pixel by pixel.
Draw(img) ==
    IF img.kind = "NRGBA" THEN img.Pix
    ELSE [k \in 1..Len(img.Pix) |->
            LET a == img.Pix[4 * ((k - 1) \div 4) + 4]
            IN  IF (k - 1) % 4 = 3 THEN a
                ELSE SetRGBA64(Premultiply(img.Pix[k], a), a)]

\* (*image.NRGBA).PixOffset for bounds starting at (0, 0); Stride = 4 * width
PixOffset(x, y, width) == y * (4 * width) + x * 4

\* main.go 126-135: the loop that clears R, G, B of the pixels with A = 0.
\* Pix is 1-based here, so byte i + c of the source is Pix[i + c + 1].
ZeroTransparent(Pix, width, height) ==
    [k \in 1..Len(Pix) |->
        IF \E y \in 0..(height - 1), x \in 0..(width - 1) :
              LET i == PixOffset(x, y, width)
              IN  /\ k \in {i + 1, i + 2, i + 3}
                  /\ Pix[i + 4] = 0
        THEN 0 ELSE Pix[k]]

\* binary.BigEndian.PutUint32
PutUint32(v) ==
    <<(v \div 16777216) % 256, (v \div 65536) % 256, (v \div 256) % 256, v % 256>>

\* main.go 120-141: the buffer hashed for alpha_normalized_hash
alphaBuffer(img) ==
    PutUint32(img.width) \o PutUint32(img.height)
    \o ZeroTransparent(Draw(img), img.width, img.height)

\* imaging.Encode(buffer, img, imaging.PNG): the encoder's one canonical
\* encoding of the decoded image (variant 0); png.Encoder refuses an image
\* without pixels.
Encode(img) ==
    IF img.width <= 0 \/ img.height <= 0
    THEN [ok |-> FALSE, bytes |-> <<>>]
    ELSE [ok |-> TRUE,
          bytes |-> <<137, IF img.kind = "Paletted" THEN 3 ELSE 6, 0,
                      img.width, img.height>> \o img.Pix]

\* the zero value HashResponse{}
ZeroHashResponse ==
    [Standard |-> <<>>, AlphaNormalized |-> <<>>, AlphaNormalizedCompact |-> <<>>]

\* computeHashes taking the compact identifier from the wrong hash
computeHashesCompactOfStandard(imgBytes) ==
    LET img == Decode(imgBytes)
    IN  IF ~img.ok
        THEN [ok |-> FALSE, err |-> "image decode failed", val |-> ZeroHashResponse]
        ELSE IF img.format # "png"
        THEN [ok |-> FALSE, err |-> "only PNG images are supported",
              val |-> ZeroHashResponse]
        ELSE LET standardHash == hashBuffer(Encode(img).bytes)
             IN  [ok |-> TRUE, err |-> "",
                  val |-> [Standard               |-> standardHash,
                           AlphaNormalized        |-> hashBuffer(alphaBuffer(img)),
                           AlphaNormalizedCompact |-> SubSeq(standardHash, 1, 16)]]

\* main.go computeHashes: [ok, err, val]
computeHashes(imgBytes) ==
    LET img == Decode(imgBytes)
    IN  IF ~img.ok
        THEN [ok |-> FALSE, err |-> "image decode failed", val |-> ZeroHashResponse]
        ELSE IF img.format # "png"
        THEN [ok |-> FALSE, err |-> "only PNG images are supported",
              val |-> ZeroHashResponse]
        ELSE LET alphaHash == hashBuffer(alphaBuffer(img))
                 buffer    == Encode(img)
             IN  IF ~buffer.ok
                 THEN [ok |-> FALSE, err |-> "encode failed", val |-> ZeroHashResponse]
                 ELSE [ok |-> TRUE, err |-> "",
                       val |-> [Standard               |-> hashBuffer(buffer.bytes),
                                AlphaNormalized        |-> alphaHash,
                                AlphaNormalizedCompact |-> SubSeq(alphaHash, 1, 16)]]

(***************************************************************************)
(* The inputs the requests draw from.                                      *)
(***************************************************************************)
\* http://x/a?v#f
URLQueryFragment ==
    <<"h", "t", "t", "p", ":", "/", "/", "x", "/", "a", "?", "v", "#", "f">>
\* http://x/a?w
URLQuery == <<"h", "t", "t", "p", ":", "/", "/", "x", "/", "a", "?", "w">>
\* http://x/a?
URLBareQuery == <<"h", "t", "t", "p", ":", "/", "/", "x", "/", "a", "?">>
\* :a   (url.Parse: missing protocol scheme)
URLNoScheme == <<":", "a">>

RawURLs == {URLQueryFragment, URLQuery, URLBareQuery, URLNoScheme}

\* a 1x1 PNG whose pixel is fully transparent with R, G set
PngTransparent == <<137, 6, 0, 1, 1, 255, 255, 0, 0>>
\* a 1x1 PNG whose pixel is opaque red
PngOpaque == <<137, 6, 0, 1, 1, 255, 0, 0, 255>>
JpegFile == <<255, 216>>
NotAnImage == <<0>>

Bodies == {PngTransparent, PngOpaque, JpegFile, NotAnImage}

(***************************************************************************)
(* Responses.                                                              *)
(***************************************************************************)
NoResponse ==
    [status |-> 0, error |-> "", details |-> "", body |-> ZeroHashResponse]

\* http.Error(w, `{"error": ..., "details": ...}`, code)
Error(code, error, details) ==
    [status |-> code, error |-> error, details |-> details, body |-> ZeroHashResponse]

\* main.go writeJSON
writeJSON(data) ==
    [status |-> 200, error |-> "", details |-> "", body |-> data]

(***************************************************************************)
(* var cache sync.Map                                                      *)
(***************************************************************************)
\* a Load that never finds the key
LoadNothing(c, key) == [ok |-> FALSE, val |-> ZeroHashResponse]

\* cache.Load(key): (val, ok)
Load(c, key) ==
    [ok |-> key \in DOMAIN c,
     val |-> IF key \in DOMAIN c THEN c[key] ELSE ZeroHashResponse]

\* a Store that drops every other entry
StoreEvicting(c, key, val) == [k \in {key} |-> val]

\* cache.Store(key, val)
Store(c, key, val) ==
    [k \in (DOMAIN c) \cup {key} |-> IF k = key THEN val ELSE c[k]]

\* fmt.Sprintf("url:%s", cleanedURL)
URLKey(cleanedURL) == <<"u", "r", "l", ":">> \o cleanedURL

\* an upload key that leaves the digest out
SHAKeyWithoutDigest(bs) == <<"s", "h", "a", "2", "5", "6", ":">>

\* fmt.Sprintf("sha256:%s", sha256Hex(skinBytes))
SHAKey(bs) == <<"s", "h", "a", "2", "5", "6", ":">> \o sha256Hex(bs)

(***************************************************************************)
(* State.  One entry per request for the handler's locals; fetched,        *)
(* computed, stored, loaded and firstOK record what a request did.         *)
(***************************************************************************)
VARIABLES
    cache,      \* the process-wide sync.Map
    serving,    \* the process is alive and serving
    pc,         \* where each request stands: idle, fetch, compute, done
    source,     \* "url", "upload" or "" before the request arrives
    rawURL,     \* handleHash's url
    cacheKey,   \* handleHash's cacheKey
    skinBytes,  \* handleHash's skinBytes
    loaded,     \* the (val, ok) of the request's cache.Load
    resp,       \* what was written to the ResponseWriter
    fetched,    \* outcome of http.Get: none, error, status, ok
    computed,   \* computeHashes was invoked for the request
    stored,     \* the request reached cache.Store
    firstOK,    \* uploaded bytes -> the first successful response for them
    engineIn,   \* the two byte slices handed to the fingerprint engine
    engineOut   \* their results and hashed buffers

vars == <<cache, serving, pc, source, rawURL, cacheKey, skinBytes, loaded, resp,
          fetched, computed, stored, firstOK, engineIn, engineOut>>

locals == <<source, rawURL, cacheKey, skinBytes, loaded>>
engine == <<engineIn, engineOut>>

NotLoaded == [ok |-> FALSE, val |-> ZeroHashResponse]

InitServer ==
    /\ cache = <<>>
    /\ serving = TRUE
    /\ pc = [r \in Reqs |-> "idle"]
    /\ source = [r \in Reqs |-> ""]
    /\ rawURL = [r \in Reqs |-> <<>>]
    /\ cacheKey = [r \in Reqs |-> <<>>]
    /\ skinBytes = [r \in Reqs |-> <<>>]
    /\ loaded = [r \in Reqs |-> NotLoaded]
    /\ resp = [r \in Reqs |-> NoResponse]
    /\ fetched = [r \in Reqs |-> "none"]
    /\ computed = [r \in Reqs |-> FALSE]
    /\ stored = [r \in Reqs |-> FALSE]
    /\ firstOK = <<>>

Init ==
    /\ InitServer
    /\ engineIn = <<>>
    /\ engineOut = <<>>

\* requests are numbered in their order of arrival
Arrives(r) ==
    /\ serving
    /\ pc[r] = "idle"
    /\ IF r = 1 THEN TRUE ELSE pc[r - 1] # "idle"

\* the first successful response for uploaded bytes
Remember(f, bs, response) ==
    IF bs \in DOMAIN f THEN f
    ELSE [k \in (DOMAIN f) \cup {bs} |-> IF k = bs THEN response ELSE f[k]]

\* a middleware that does not recover: the panic ends the process
recoverNothing(r, rec) ==
    /\ resp' = resp
    /\ pc' = [pc EXCEPT ![r] = "done"]
    /\ serving' = FALSE
    /\ cache' = cache

\* recoverMiddleware's deferred function, run when next(w, r) panics with rec:
\* the request is answered 500 and the handler returns
recoverMiddleware(r, rec) ==
    /\ resp' = [resp EXCEPT ![r] = Error(500, "Internal server error", rec)]
    /\ pc' = [pc EXCEPT ![r] = "done"]
    /\ serving' = serving
    /\ cache' = cache

\* handleHash 53-65: a request with a url parameter, up to its cache.Load
StartURL(r) ==
    \E url \in RawURLs :
        LET n   == normalizeURL(url)
            key == URLKey(n.url)
            hit == Load(cache, key)
        IN  /\ Arrives(r)
            /\ source' = [source EXCEPT ![r] = "url"]
            /\ rawURL' = [rawURL EXCEPT ![r] = url]
            /\ IF ~n.ok
               THEN /\ resp' = [resp EXCEPT ![r] = Error(400, "Invalid URL", "parse")]
                    /\ pc' = [pc EXCEPT ![r] = "done"]
                    /\ UNCHANGED <<cacheKey, loaded>>
               ELSE /\ cacheKey' = [cacheKey EXCEPT ![r] = key]
                    /\ loaded' = [loaded EXCEPT ![r] = hit]
                    /\ IF hit.ok
                       THEN /\ resp' = [resp EXCEPT ![r] = writeJSON(hit.val)]
                            /\ pc' = [pc EXCEPT ![r] = "done"]
                       ELSE /\ pc' = [pc EXCEPT ![r] = "fetch"]
                            /\ UNCHANGED resp
            /\ UNCHANGED <<cache, serving, skinBytes, fetched, computed, stored,
                           firstOK, engine>>

\* handleHash 80-97: a request without url parameter, up to its cache.Load
StartUpload(r) ==
    /\ Arrives(r)
    /\ source' = [source EXCEPT ![r] = "upload"]
    /\ \/ \* r.FormFile fails: no file in the request
          /\ resp' = [resp EXCEPT
                        ![r] = Error(400, "Failed to get uploaded file", "form")]
          /\ pc' = [pc EXCEPT ![r] = "done"]
          /\ UNCHANGED <<cacheKey, skinBytes, loaded, firstOK>>
       \/ \* io.ReadAll(file) fails
          /\ resp' = [resp EXCEPT
                        ![r] = Error(500, "Failed to read uploaded file", "read")]
          /\ pc' = [pc EXCEPT ![r] = "done"]
          /\ UNCHANGED <<cacheKey, skinBytes, loaded, firstOK>>
       \/ \E bs \in Bodies :
            LET key == SHAKey(bs)
                hit == Load(cache, key)
            IN  /\ skinBytes' = [skinBytes EXCEPT ![r] = bs]
                /\ cacheKey' = [cacheKey EXCEPT ![r] = key]
                /\ loaded' = [loaded EXCEPT ![r] = hit]
                /\ IF hit.ok
                   THEN /\ resp' = [resp EXCEPT ![r] = writeJSON(hit.val)]
                        /\ pc' = [pc EXCEPT ![r] = "done"]
                        /\ firstOK' = Remember(firstOK, bs, writeJSON(hit.val))
                   ELSE /\ pc' = [pc EXCEPT ![r] = "compute"]
                        /\ UNCHANGED <<resp, firstOK>>
    /\ UNCHANGED <<cache, serving, rawURL, fetched, computed, stored, engine>>

\* handleHash 67-78: http.Get(url) and io.ReadAll(resp.Body)
Fetch(r) ==
    /\ serving
    /\ pc[r] = "fetch"
    /\ \/ \* err != nil
          /\ fetched' = [fetched EXCEPT ![r] = "error"]
          /\ resp' = [resp EXCEPT
                        ![r] = Error(400, "Failed to fetch image from URL", "get")]
          /\ pc' = [pc EXCEPT ![r] = "done"]
          /\ UNCHANGED <<cache, serving, skinBytes>>
       \/ \* err == nil and resp.StatusCode != 200: line 69 calls err.Error()
          \* on the nil error and panics
          /\ fetched' = [fetched EXCEPT ![r] = "status"]
          /\ recoverMiddleware(r, "nil pointer dereference")
          /\ UNCHANGED skinBytes
       \/ \* status 200, io.ReadAll fails
          /\ fetched' = [fetched EXCEPT ![r] = "ok"]
          /\ resp' = [resp EXCEPT
                        ![r] = Error(500, "Failed to read image from URL", "read")]
          /\ pc' = [pc EXCEPT ![r] = "done"]
          /\ UNCHANGED <<cache, serving, skinBytes>>
       \/ \* status 200 and a body, whatever the remote serves at this moment
          \E bs \in Bodies :
            /\ fetched' = [fetched EXCEPT ![r] = "ok"]
            /\ skinBytes' = [skinBytes EXCEPT ![r] = bs]
            /\ pc' = [pc EXCEPT ![r] = "compute"]
            /\ UNCHANGED <<cache, serving, resp>>
    /\ UNCHANGED <<source, rawURL, cacheKey, loaded, computed, stored, firstOK,
                   engine>>

\* a handler that stores what computeHashes returned before looking at err
ComputeAndStoreBeforeCheck(r) ==
    LET hashes == computeHashes(skinBytes[r])
    IN  /\ serving
        /\ pc[r] = "compute"
        /\ computed' = [computed EXCEPT ![r] = TRUE]
        /\ pc' = [pc EXCEPT ![r] = "done"]
        /\ cache' = Store(cache, cacheKey[r], hashes.val)
        /\ IF ~hashes.ok
           THEN /\ resp' = [resp EXCEPT
                              ![r] = Error(500, "Failed to compute hashes", hashes.err)]
                /\ UNCHANGED <<stored, firstOK>>
           ELSE /\ stored' = [stored EXCEPT ![r] = TRUE]
                /\ resp' = [resp EXCEPT ![r] = writeJSON(hashes.val)]
                /\ firstOK' = IF source[r] = "upload"
                              THEN Remember(firstOK, skinBytes[r], writeJSON(hashes.val))
                              ELSE firstOK
        /\ UNCHANGED <<serving, locals, fetched, engine>>

\* handleHash 100-107: computeHashes, then cache.Store and the response
ComputeAndStore(r) ==
    LET hashes == computeHashes(skinBytes[r])
    IN  /\ serving
        /\ pc[r] = "compute"
        /\ computed' = [computed EXCEPT ![r] = TRUE]
        /\ pc' = [pc EXCEPT ![r] = "done"]
        /\ IF ~hashes.ok
           THEN /\ resp' = [resp EXCEPT
                              ![r] = Error(500, "Failed to compute hashes", hashes.err)]
                /\ UNCHANGED <<cache, stored, firstOK>>
           ELSE /\ cache' = Store(cache, cacheKey[r], hashes.val)
                /\ stored' = [stored EXCEPT ![r] = TRUE]
                /\ resp' = [resp EXCEPT ![r] = writeJSON(hashes.val)]
                /\ firstOK' = IF source[r] = "upload"
                              THEN Remember(firstOK, skinBytes[r], writeJSON(hashes.val))
                              ELSE firstOK
        /\ UNCHANGED <<serving, locals, fetched, engine>>

Next ==
    \E r \in Reqs :
        \/ StartURL(r)
        \/ StartUpload(r)
        \/ Fetch(r)
        \/ ComputeAndStore(r)

Spec == Init /\ [][Next]_vars
(***************************************************************************)
(* The fingerprint engine on its own: computeHashes applied to two files.  *)
(* The second file has the pixels of the first, except that a pixel with   *)
(* alpha 0 may carry any R, G, B.                                          *)
(***************************************************************************)
\* the pixels of the design's 2x2 scenario, black-transparent, and a faint red
Pixels ==
    {<<255, 0, 0, 255>>, <<0, 255, 0, 0>>, <<0, 0, 255, 128>>,
     <<255, 255, 0, 0>>, <<0, 0, 0, 0>>, <<1, 0, 0, 1>>}

Flatten(px) ==
    [k \in 1..(4 * Len(px)) |-> px[((k - 1) \div 4) + 1][((k - 1) % 4) + 1]]

PngFile(ctype, width, height, px) ==
    <<137, ctype, 0, width, height>> \o Flatten(px)

InitEngine ==
    /\ InitServer
    /\ engineOut = <<>>
    /\ \/ engineIn \in {<<JpegFile, JpegFile>>, <<NotAnImage, NotAnImage>>}
       \/ \E ctype \in {3, 6}, width \in 1..MaxDim, height \in 1..MaxDim :
            \E pxA \in [1..(width * height) -> Pixels] :
              \E pxB \in [1..(width * height) -> Pixels] :
                /\ \A i \in 1..(width * height) :
                      \/ pxA[i] = pxB[i]
                      \/ pxA[i][4] = 0 /\ pxB[i][4] = 0
                /\ engineIn = <<PngFile(ctype, width, height, pxA),
                                PngFile(ctype, width, height, pxB)>>

\* the buffer computeHashes hashes for alpha_normalized_hash (main.go 141)
HashedBuffer(bs) ==
    LET img == Decode(bs)
    IN  IF img.ok /\ img.format = "png" THEN alphaBuffer(img) ELSE <<>>

RunEngine ==
    /\ engineIn # <<>>
    /\ engineOut = <<>>
    /\ engineOut' = [i \in 1..2 |-> [res |-> computeHashes(engineIn[i]),
                                     buf |-> HashedBuffer(engineIn[i])]]
    /\ UNCHANGED <<cache, serving, pc, source, rawURL, cacheKey, skinBytes, loaded,
                   resp, fetched, computed, stored, firstOK, engineIn>>

NextEngine == RunEngine

SpecEngine == InitEngine /\ [][NextEngine]_vars

(***************************************************************************)
(* Properties.                                                             *)
(***************************************************************************)
Done(r) == pc[r] = "done"
Finishes(r) == pc[r] # "done" /\ pc'[r] = "done"
IsSHAKey(k) == Len(k) >= 7 /\ SubSeq(k, 1, 7) = <<"s", "h", "a", "2", "5", "6", ":">>

\* C1: a URL request that misses the cache and whose fetch returns without
\* transport error but with a status other than 200 ends with the
\* fetch-failure error (400, "Failed to fetch image from URL"), and stores
\* nothing.
C1_BadStatusIsFetchFailure ==
    \A r \in Reqs :
        fetched[r] = "status" /\ Done(r) =>
            /\ resp[r].status = 400
            /\ resp[r].error = "Failed to fetch image from URL"
            /\ ~stored[r]

\* C2: a request that ends in an error leaves the cache as it was, and
\* cache.Store is reached only after computeHashes returned without error.
C2_ErrorsLeaveCache ==
    /\ [][\A r \in Reqs :
            Finishes(r) /\ resp'[r].status # 200 => cache' = cache]_vars
    /\ [](\A r \in Reqs :
            /\ stored[r] => computed[r] /\ computeHashes(skinBytes[r]).ok
                            /\ resp[r].status = 200
            /\ Done(r) /\ resp[r].status # 200 => ~stored[r])

C2_Witness ==
    \E r, q \in Reqs :
        /\ Done(r) /\ computed[r] /\ resp[r].status = 500
        /\ stored[q] /\ cacheKey[q] = cacheKey[r]

C4_RacingStoresEqual ==
    \A r, q \in Reqs :
        stored[r] /\ stored[q] /\ cacheKey[r] = cacheKey[q]
            => resp[r].body = resp[q].body

\* C4 amended: racing requests that share a sha256: key store equal values,
\* so their overwrites never change the value under the key; racing
\* requests that share a url: key store equal values when their fetches
\* returned the same bytes.
C4_RacingStoresEqualForSameBytes ==
    /\ [](\A r, q \in Reqs :
            /\ stored[r] /\ stored[q] /\ cacheKey[r] = cacheKey[q]
            /\ IsSHAKey(cacheKey[r]) \/ skinBytes[r] = skinBytes[q]
            => resp[r].body = resp[q].body)
    /\ [][\A k \in DOMAIN cache : IsSHAKey(k) => cache'[k] = cache[k]]_vars

C4_Witness ==
    \E r, q \in Reqs :
        /\ r # q
        /\ stored[r] /\ stored[q]
        /\ IsSHAKey(cacheKey[r]) /\ cacheKey[r] = cacheKey[q]

\* the part of a URL before its query string and fragment
BeforeQueryAndFragment(u) ==
    LET cut == {i \in 1..Len(u) : u[i] \in {"?", "#"}}
    IN  IF cut = {} THEN u
        ELSE SubSeq(u, 1, (CHOOSE i \in cut : \A j \in cut : i <= j) - 1)

\* C5: two URLs that differ only in query string and fragment get the same
\* cache key, "url:" followed by the URL without query and fragment.
C5_QueryAndFragmentIgnored ==
    \A r, q \in Reqs :
        /\ source[r] = "url" /\ source[q] = "url"
        /\ cacheKey[r] # <<>> /\ cacheKey[q] # <<>>
        /\ BeforeQueryAndFragment(rawURL[r]) = BeforeQueryAndFragment(rawURL[q])
        => /\ cacheKey[r] = cacheKey[q]
           /\ cacheKey[r] = <<"u", "r", "l", ":">> \o BeforeQueryAndFragment(rawURL[r])

\* the step in which request r panics (main.go 69)
Faults(r) == fetched[r] = "none" /\ fetched'[r] = "status"

\* C6: a panic in handleHash becomes a 500 response for that request only:
\* the process keeps serving (which is all the other requests' next steps
\* wait for), the cache is unchanged and the other requests keep their state.
C6_PanicIsContained ==
    /\ [][\A r \in Reqs :
            Faults(r) =>
                /\ serving'
                /\ cache' = cache
                /\ pc'[r] = "done"
                /\ resp'[r].status = 500
                /\ resp'[r].error = "Internal server error"
                /\ \A q \in Reqs \ {r} :
                      /\ pc'[q] = pc[q] /\ resp'[q] = resp[q]
                      /\ skinBytes'[q] = skinBytes[q] /\ cacheKey'[q] = cacheKey[q]
                      /\ loaded'[q] = loaded[q]]_vars
    /\ []serving

C6_Witness ==
    \E r, q \in Reqs :
        /\ r < q
        /\ fetched[r] = "status" /\ Done(r) /\ resp[r].status = 500
        /\ Done(q) /\ stored[q]

\* the two files are PNGs of the same size and colour type whose pixels are
\* the same except for R, G, B where alpha is 0
TransparentVariants(a, b) ==
    /\ Len(a) = Len(b) /\ Len(a) > 5
    /\ a[1] = 137 /\ SubSeq(a, 1, 5) = SubSeq(b, 1, 5)
    /\ \A k \in 6..Len(a) :
          \/ a[k] = b[k]
          \/ /\ (k - 6) % 4 < 3
             /\ a[k - ((k - 6) % 4) + 3] = 0
             /\ b[k - ((k - 6) % 4) + 3] = 0

\* the big-endian width and height, then the file's pixels in row-major
\* order with R, G, B cleared where alpha is 0 and every other pixel as it is
NormalizedPixelBuffer(bs) ==
    [k \in 1..(8 + 4 * bs[4] * bs[5]) |->
        IF k <= 8
        THEN (IF k = 4 THEN bs[4] ELSE IF k = 8 THEN bs[5] ELSE 0)
        ELSE LET c == (k - 9) % 4
             IN  IF c < 3 /\ bs[5 + (k - 8) - c + 3] = 0 THEN 0
                 ELSE bs[5 + (k - 8)]]

\* C7: two PNGs that differ only in R, G, B under alpha 0 get the same
\* alpha_normalized_hash, and the buffer hashed is the 8-byte header
\* followed by the pixels with R, G, B = 0 where A = 0 and every pixel with
\* A # 0 unchanged.
C7_AlphaNormalizedBuffer ==
    engineOut # <<>> /\ TransparentVariants(engineIn[1], engineIn[2]) =>
        /\ engineOut[1].res.ok /\ engineOut[2].res.ok
        /\ engineOut[1].res.val.AlphaNormalized = engineOut[2].res.val.AlphaNormalized
        /\ \A i \in 1..2 : engineOut[i].buf = NormalizedPixelBuffer(engineIn[i])

\* The part of C7 that holds for every colour type: equal
\* alpha_normalized_hash for the two files, and the stated buffer for the
\* files that decode to *image.NRGBA.
EngineAlphaHashEqual ==
    engineOut # <<>> /\ TransparentVariants(engineIn[1], engineIn[2]) =>
        /\ engineOut[1].res.ok /\ engineOut[2].res.ok
        /\ engineOut[1].res.val.AlphaNormalized = engineOut[2].res.val.AlphaNormalized
        /\ engineIn[1][2] = 6 =>
              \A i \in 1..2 : engineOut[i].buf = NormalizedPixelBuffer(engineIn[i])

\* C8: bytes that decode as an image of another format than PNG end in an
\* error, never a fingerprint, in a category (status and error) that is
\* neither the one of undecodable bytes nor the internal failure's.
C8_UnsupportedFormatDistinct ==
    \A r \in Reqs :
        /\ Done(r) /\ computed[r]
        /\ Decode(skinBytes[r]).ok /\ Decode(skinBytes[r]).format # "png"
        => /\ resp[r].status # 200
           /\ resp[r].error # "Internal server error"
           /\ \A q \in Reqs :
                 Done(q) /\ computed[q] /\ ~Decode(skinBytes[q]).ok
                 => <<resp[q].status, resp[q].error>> # <<resp[r].status, resp[r].error>>

\* C9: a stored key stays in the cache, and a URL request that starts when
\* its key is stored is answered with the cached value, without a fetch.
C9_CacheKeepsAndServes ==
    /\ [][\A k \in DOMAIN cache : k \in DOMAIN cache']_vars
    /\ [][\A r \in Reqs :
            /\ pc[r] = "idle" /\ source'[r] = "url"
            /\ cacheKey'[r] # <<>> /\ cacheKey'[r] \in DOMAIN cache
            => /\ pc'[r] = "done"
               /\ resp'[r] = writeJSON(cache[cacheKey'[r]])]_vars
    /\ [](\A r \in Reqs :
            source[r] = "url" /\ loaded[r].ok
            => Done(r) /\ fetched[r] = "none" /\ ~computed[r] /\ ~stored[r])

C9_Witness ==
    \E r, q \in Reqs :
        /\ r # q
        /\ source[r] = "url" /\ stored[r]
        /\ source[q] = "url" /\ loaded[q].ok /\ Done(q)
        /\ rawURL[q] # rawURL[r]
        /\ resp[q] = resp[r]

\* C10: every entry under "sha256:" + h holds what computeHashes returns for
\* the bytes whose SHA-256 is h, its compact identifier is the first 16
\* characters of its alpha_normalized_hash, and only an upload request that
\* succeeds writes under such a key.
C10_SHAEntries ==
    /\ [](\A k \in DOMAIN cache :
            /\ cache[k].AlphaNormalizedCompact
                  = SubSeq(cache[k].AlphaNormalized, 1, 16)
            /\ Len(cache[k].AlphaNormalized) = 64
            /\ IsSHAKey(k) =>
                  /\ \E bs \in Bodies : SubSeq(k, 8, Len(k)) = sha256Hex(bs)
                  /\ \A bs \in Bodies :
                        SubSeq(k, 8, Len(k)) = sha256Hex(bs)
                        => /\ computeHashes(bs).ok
                           /\ cache[k] = computeHashes(bs).val)
    /\ [][\A k \in DOMAIN cache' :
            /\ IsSHAKey(k)
            /\ k \notin DOMAIN cache \/ cache'[k] # cache[k]
            => \E r \in Reqs :
                  /\ source[r] = "upload" /\ cacheKey[r] = k
                  /\ Finishes(r) /\ resp'[r].status = 200]_vars

C10_Witness ==
    \E k \in DOMAIN cache, r \in Reqs :
        /\ IsSHAKey(k)
        /\ source[r] = "url" /\ stored[r]
        /\ \E q \in Reqs : cacheKey[q] = k /\ stored[q]
=============================================================================
